---- MODULE Spec2Model ----
(***************************************************************************)
(* Model of test-server.py: a diagnostic HTTP server built on Python's     *)
(* http.server.  The process parses its port argument, binds a listening   *)
(* socket, prints a banner and serves GET and OPTIONS requests one         *)
(* connection at a time until it is interrupted.                           *)
(*                                                                         *)
(* Text is modelled as sequences of code points (str) or of byte values    *)
(* (bytes), so that formatting, decoding and encoding are computed and not *)
(* assumed.  Requests are HTTP/1.x request lines of three words            *)
(* (method, target, version), the protocol the server is specified for.    *)
(***************************************************************************)
EXTENDS Integers, Sequences, FiniteSets, TLC

(* ----------------------------- bounds ---------------------------------- *)
\* connections the clients open during one run
MaxRequests == 2
\* connections that may wait in the listen queue at once
MaxBacklog == 1
\* the wall clock takes the values 0 .. MaxTick, in units of TickUnit microseconds
MaxTick == 2
TickUnit == 500000

(* ------------------------------ text ----------------------------------- *)
\* the printable ASCII characters: code points 32 .. 95 and 97 .. 126, in
\* order (a TLA+ string cannot hold the grave accent, code point 96)
PrintableLow == " !\"#$%&'()*+,-./0123456789:;<=>?@ABCDEFGHIJKLMNOPQRSTUVWXYZ[\\]^_"
PrintableHigh == "abcdefghijklmnopqrstuvwxyz{|}~"

\* ord(c) of a printable ASCII character c
Ord(c) ==
    IF \E i \in 1..Len(PrintableLow) : SubSeq(PrintableLow, i, i) = c
    THEN 31 + (CHOOSE i \in 1..Len(PrintableLow) : SubSeq(PrintableLow, i, i) = c)
    ELSE 96 + (CHOOSE i \in 1..Len(PrintableHigh) : SubSeq(PrintableHigh, i, i) = c)

\* a str literal as its sequence of code points
Text(s) == [i \in 1..Len(s) |-> Ord(SubSeq(s, i, i))]

LF == 10

RECURSIVE Lines(_)
\* the lines of a multi-line literal, joined by newlines
Lines(ls) ==
    IF Len(ls) = 0 THEN <<>>
    ELSE IF Len(ls) = 1 THEN ls[1]
    ELSE ls[1] \o <<LF>> \o Lines(Tail(ls))

\* s occurs in b as a contiguous run
Contains(b, s) ==
    \E i \in 0..(Len(b) - Len(s)) : \A k \in 1..Len(s) : b[i + k] = s[k]

RECURSIVE Digits(_)
\* the decimal digits of a natural number, most significant first
Digits(n) ==
    IF n < 10 THEN <<48 + n>> ELSE Digits(n \div 10) \o <<48 + (n % 10)>>

\* str(n) / f"{n}" of an int
Str(n) == IF n < 0 THEN <<45>> \o Digits(0 - n) ELSE Digits(n)

\* n as decimal digits, zero-padded on the left to width w (format %0wd)
Pad(n, w) ==
    LET d == Digits(n)
    IN  IF Len(d) >= w THEN d ELSE [i \in 1..(w - Len(d)) |-> 48] \o d

\* the UTF-8 bytes of one code point (code points below 65536)
Utf8Char(c) ==
    IF c < 128 THEN <<c>>
    ELSE IF c < 2048 THEN <<192 + (c \div 64), 128 + (c % 64)>>
    ELSE <<224 + (c \div 4096), 128 + ((c \div 64) % 64), 128 + (c % 64)>>

RECURSIVE Encode(_)
\* str.encode(): the UTF-8 bytes of a str
Encode(s) ==
    IF Len(s) = 0 THEN <<>>
    ELSE IF Len(s) = 1 THEN Utf8Char(s[1])
    ELSE LET h == Len(s) \div 2
         IN  Encode(SubSeq(s, 1, h)) \o Encode(SubSeq(s, h + 1, Len(s)))

\* str(raw, 'iso-8859-1'): every byte is the code point of the same value
Latin1Decode(raw) == [i \in 1..Len(raw) |-> raw[i]]

(* --------------------------- the page template -------------------------- *)
\* literal text of the f-string, source lines 31-37
Html1 ==
    Lines(<< Text(""),
             Text("<!DOCTYPE html>"),
             Text("<html lang=\"en\">"),
             Text("<head>"),
             Text("  <meta charset=\"UTF-8\">"),
             Text("  <meta name=\"viewport\" content=\"width=device-width, initial-scale=1.0\">"),
             Text("  <title>Test Server - Port ") >>)

\* literal text of the f-string, source lines 37-67
Html2 ==
    Lines(<< Text("</title>"),
             Text("  <style>"),
             Text("    body {"),
             Text("      font-family: system-ui, -apple-system, sans-serif;"),
             Text("      max-width: 800px;"),
             Text("      margin: 50px auto;"),
             Text("      padding: 20px;"),
             Text("      background: #f5f5f5;"),
             Text("    }"),
             Text("    .container {"),
             Text("      background: white;"),
             Text("      padding: 40px;"),
             Text("      border-radius: 8px;"),
             Text("      box-shadow: 0 2px 4px rgba(0,0,0,0.1);"),
             Text("    }"),
             Text("    h1 { color: #2563eb; }"),
             Text("    .success { color: #16a34a; font-weight: bold; font-size: 1.2em; }"),
             Text("    .info { background: #eff6ff; padding: 15px; border-radius: 4px; margin: 20px 0; }"),
             Text("    code { background: #f1f5f9; padding: 2px 6px; border-radius: 3px; font-family: monospace; }"),
             Text("    pre { background: #1e293b; color: #e2e8f0; padding: 15px; border-radius: 4px; overflow-x: auto; }"),
             Text("  </style>"),
             Text("</head>"),
             Text("<body>"),
             Text("  <div class=\"container\">"),
             Text("    <h1>") \o <<9989>> \o Text(" Test Server Running</h1>"),
             Text("    <p class=\"success\">Proxy is working correctly!</p>"),
             Text("    "),
             Text("    <div class=\"info\">"),
             Text("      <strong>Server Info:</strong>"),
             Text("      <ul>"),
             Text("        <li>Port: <code>") >>)

\* literal text of the f-string, source lines 67-68
Html3 ==
    Lines(<< Text("</code></li>"),
             Text("        <li>Request URL: <code>") >>)

\* literal text of the f-string, source lines 68-69
Html4 ==
    Lines(<< Text("</code></li>"),
             Text("        <li>Request Method: <code>") >>)

\* literal text of the f-string, source lines 69-70
Html5 ==
    Lines(<< Text("</code></li>"),
             Text("        <li>Time: <code>") >>)

\* literal text of the f-string, source lines 70-76
Html6 ==
    Lines(<< Text("</code></li>"),
             Text("      </ul>"),
             Text("    </div>"),
             Text("    "),
             Text("    <h2>How to Access:</h2>"),
             Text("    <ul>"),
             Text("      <li><strong>Direct:</strong> <code>http://localhost:") >>)

\* literal text of the f-string, source lines 76-77
Html7 ==
    Lines(<< Text("/</code></li>"),
             Text("      <li><strong>Via Proxy:</strong> <code>http://localhost:8000/proxy/") >>)

\* literal text of the f-string, source lines 77-82
Html8 ==
    Lines(<< Text("/</code></li>"),
             Text("    </ul>"),
             Text("    "),
             Text("    <h2>Test Commands:</h2>"),
             Text("    <pre><code># Direct access"),
             Text("curl http://localhost:") >>)

\* literal text of the f-string, source lines 82-85
Html9 ==
    Lines(<< Text("/"),
             Text(""),
             Text("# Via proxy"),
             Text("curl http://localhost:8000/proxy/") >>)

\* literal text of the f-string, source lines 85-96
Html10 ==
    Lines(<< Text("/</code></pre>"),
             Text(""),
             Text("    <h2>Next Steps:</h2>"),
             Text("    <ol>"),
             Text("      <li>This test server proves the proxy works</li>"),
             Text("      <li>Start your actual dev server (React, Vite, etc.)</li>"),
             Text("      <li>Access it via: <code>http://localhost:8000/proxy/[PORT]/</code></li>"),
             Text("    </ol>"),
             Text("  </div>"),
             Text("</body>"),
             Text("</html>"),
             Text("        ") >>)

(* ------------------------- argument parsing ---------------------------- *)
IsDigit(c) == c >= 48 /\ c <= 57
\* the characters str.strip() removes (space, \t \n \v \f \r)
IsSpace(c) == c = 32 \/ (c >= 9 /\ c <= 13)

RECURSIVE LStrip(_)
LStrip(s) == IF Len(s) > 0 /\ IsSpace(s[1]) THEN LStrip(Tail(s)) ELSE s

RECURSIVE RStrip(_)
RStrip(s) ==
    IF Len(s) > 0 /\ IsSpace(s[Len(s)]) THEN RStrip(SubSeq(s, 1, Len(s) - 1)) ELSE s

RECURSIVE DigitsValue(_, _)
\* the value of a run of digits and underscores, acc being the value so far
DigitsValue(s, acc) ==
    IF Len(s) = 0 THEN acc
    ELSE IF s[1] = 95 THEN DigitsValue(Tail(s), acc)
    ELSE DigitsValue(Tail(s), 10 * acc + (s[1] - 48))

\* int(s) for a str s: surrounding whitespace, an optional sign, then digits
\* with single underscores allowed between digits; anything else raises
\* ValueError (ok = FALSE)
IntParse(s) ==
    LET t    == RStrip(LStrip(s))
        sgn  == Len(t) > 0 /\ t[1] \in {43, 45}
        d    == IF sgn THEN Tail(t) ELSE t
        good == /\ Len(d) > 0
                /\ \A i \in 1..Len(d) :
                     \/ IsDigit(d[i])
                     \/ /\ d[i] = 95
                        /\ i > 1 /\ i < Len(d)
                        /\ IsDigit(d[i - 1]) /\ IsDigit(d[i + 1])
        v    == DigitsValue(d, 0)
    IN  IF ~good THEN [ok |-> FALSE, value |-> 0]
        ELSE [ok |-> TRUE, value |-> IF sgn /\ t[1] = 45 THEN 0 - v ELSE v]

DefaultPort == 5173

\* variant: a default of 3000 when no argument is given
PortFromArgs_OtherDefault(args) ==
    IF Len(args) > 0 THEN IntParse(Text(args[1]))
    ELSE [ok |-> TRUE, value |-> 3000]

\* variant: an argument that does not parse falls back to the default
PortFromArgs_Fallback(args) ==
    IF Len(args) > 0 /\ IntParse(Text(args[1])).ok
    THEN IntParse(Text(args[1]))
    ELSE [ok |-> TRUE, value |-> DefaultPort]

\* PORT = int(sys.argv[1]) if len(sys.argv) > 1 else 5173
\* argv is sys.argv[1:]
PortFromArgs(args) ==
    IF Len(args) > 0 THEN IntParse(Text(args[1]))
    ELSE [ok |-> TRUE, value |-> DefaultPort]

(* ------------------------------ inputs --------------------------------- *)
\* an optional value is <<>> when absent and <<v>> when it is v
None == <<>>
Some(v) == <<v>>

\* the command lines the program is started with (sys.argv[1:])
ArgvChoices ==
    { <<>>, <<" 8080">>, <<"">>, <<"abc">>, <<"80a">>, <<"8 0">>,
      <<"70000">>, <<"-1">> }

Methods == {"GET", "OPTIONS", "POST", "HEAD"}

\* raw request targets, as the bytes on the wire; the last one holds the
\* byte 0xE9
Targets == { Text("/"), Text("/abc?x=1"), Text("//ab"), <<47, 233>> }

\* what bind() can do for a port in range
BindOutcomes == {"ok", "EADDRINUSE", "EACCES"}

(* ------------------------------- state --------------------------------- *)
VARIABLES
    argv,          \* sys.argv[1:]
    pc,            \* position of the main thread
    PORT,          \* the module-level PORT (optional: unset until line 12 ran)
    exitCode,      \* exit status of the process (optional: none while it runs)
    stderr,        \* name of the uncaught exception, "" if none
    stdout,        \* lines printed by __main__
    accessLog,     \* lines printed by log_message for the latest request
    sock,          \* listening socket: "unbound", "listening", "closed"
    address,       \* address the socket is bound to, <<>> if it is not
    bindAttempts,  \* calls of socket.bind made
    bindResult,    \* outcome of the bind, "untried" before it
    shutdownRequest, \* BaseServer.__shutdown_request
    isShutDown,    \* BaseServer.__is_shut_down (a threading.Event)
    connected,     \* connections opened by clients so far (ids 1..connected)
    accepted,      \* connections taken from the listen queue so far
    active,        \* set of accepted connections not yet closed
    answered,      \* connections a response was written to, in order
    response,      \* the latest response written (optional)
    refused,       \* a 501 response has been written during this run
    prevGet,       \* clock reading and timestamp of the GET before the latest
                   \* (optional)
    lastGet,       \* clock reading and timestamp of the latest GET (optional)
    now,           \* the wall clock
    interrupts     \* SIGINTs delivered to the process

\* the values of the optional variables, where they are set
Port == PORT[1]
Response == response[1]
PrevGet == prevGet[1]
LastGet == lastGet[1]

vars == << argv, pc, PORT, exitCode, stderr, stdout, accessLog, sock,
           address, refused, bindAttempts, bindResult, shutdownRequest, isShutDown, connected,
           accepted, active, answered, response, prevGet, lastGet, now,
           interrupts >>

procVars == << argv, PORT, stdout, bindAttempts, bindResult, address >>
connVars == << connected, accepted, active, answered, response, accessLog,
               refused, prevGet, lastGet >>
loopVars == << shutdownRequest, isShutDown >>

\* the server is in serve_forever, accepting and answering requests
Listening == pc \in {"select", "process", "close"}
\* the process has left serve_forever or has ended
Stopped == pc \in {"except", "shutdown", "wait", "exit"}

Init ==
    /\ argv \in ArgvChoices
    /\ pc = "line12"
    /\ PORT = None
    /\ exitCode = None
    /\ stderr = ""
    /\ stdout = <<>>
    /\ accessLog = <<>>
    /\ sock = "unbound"
    /\ address = None
    /\ bindAttempts = 0
    /\ bindResult = "untried"
    /\ shutdownRequest = FALSE
    /\ isShutDown = FALSE
    /\ connected = 0
    /\ accepted = 0
    /\ active = {}
    /\ answered = <<>>
    /\ response = None
    /\ refused = FALSE
    /\ prevGet = None
    /\ lastGet = None
    /\ now = 0
    /\ interrupts = 0

(* ------------------------- process start-up ---------------------------- *)
\* an exception nobody catches: traceback on stderr, exit status 1; the
\* operating system closes the listening socket with the process
Die(exc, code) ==
    /\ pc' = "exit"
    /\ exitCode' = Some(code)
    /\ stderr' = exc
    /\ sock' = IF sock = "listening" THEN "closed" ELSE sock

\* line 12
ParsePort ==
    /\ pc = "line12"
    /\ LET r == PortFromArgs(argv)
       IN  IF r.ok
           THEN /\ PORT' = Some(r.value)
                /\ pc' = "line101"
                /\ UNCHANGED << exitCode, stderr, sock >>
           ELSE /\ Die("ValueError", 1)
                /\ UNCHANGED PORT
    /\ UNCHANGED << argv, stdout, bindAttempts, bindResult, address,
                    loopVars, connVars, now, interrupts >>

\* what socket.bind(('0.0.0.0', port)) can answer
BindResults(port) ==
    IF port < 0 \/ port > 65535 THEN {"OverflowError"} ELSE BindOutcomes

\* variant: the bind error is swallowed and start-up goes on
BindFailure_Swallowed(r) ==
    /\ pc' = "banner"
    /\ UNCHANGED << exitCode, stderr, sock, address >>

\* the constructor's except clause: server_close(), then the exception is
\* raised again and the process dies of it
BindFailure(r) ==
    /\ pc' = "exit"
    /\ exitCode' = Some(1)
    /\ stderr' = IF r = "OverflowError" THEN r ELSE "OSError"
    /\ sock' = "closed"
    /\ UNCHANGED address

\* line 101: HTTPServer(('0.0.0.0', PORT), TestHandler); the constructor
\* binds and listens
Construct ==
    /\ pc = "line101"
    /\ \E r \in BindResults(Port) :
         /\ bindAttempts' = bindAttempts + 1
         /\ bindResult' = r
         /\ IF r = "ok"
            THEN /\ sock' = "listening"
                 /\ address' = <<"0.0.0.0", Port>>
                 /\ pc' = "banner"
                 /\ UNCHANGED << exitCode, stderr >>
            ELSE BindFailure(r)
    /\ UNCHANGED << argv, PORT, stdout, loopVars, connVars, now, interrupts >>

BannerTitle == <<128640>> \o Text(" Test Server Started")
BannerRule == Text("======================")
BannerPort == Text("Port: ")
BannerDirect == Text("Direct URL: http://localhost:")
BannerProxy == Text("Proxy URL: http://localhost:8000/proxy/")
BannerStop == Text("Press Ctrl+C to stop")

\* lines 102-110
Banner(port) ==
    << <<>>,
       BannerTitle,
       BannerRule,
       BannerPort \o Str(port),
       BannerDirect \o Str(port) \o <<47>>,
       BannerProxy \o Str(port) \o <<47>>,
       <<>>,
       BannerStop,
       <<>> >>

PrintBanner ==
    /\ pc = "banner"
    /\ stdout' = stdout \o Banner(Port)
    /\ pc' = "line113"
    /\ UNCHANGED << argv, PORT, exitCode, stderr, sock, address,
                    bindAttempts, bindResult, loopVars, connVars, now,
                    interrupts >>

\* line 113: serve_forever() clears the event and enters its loop
ServeForever ==
    /\ pc = "line113"
    /\ isShutDown' = FALSE
    /\ pc' = "select"
    /\ UNCHANGED << procVars, exitCode, stderr, sock, shutdownRequest,
                    connVars, now, interrupts >>

(* ------------------------------ the clock ------------------------------ *)
\* date and hour the run takes place in; the clock counts from its start
DateHour == Text("2026-01-01T00:")

\* variant: the timestamp is cut to whole seconds
IsoFormat_Seconds(t) ==
    LET secs == (t * TickUnit) \div 1000000
    IN  DateHour \o Pad((secs \div 60) % 60, 2) \o <<58>> \o Pad(secs % 60, 2)

\* datetime.now().isoformat() when the clock reads t: the fraction is left
\* out when the microsecond field is zero
IsoFormat(t) ==
    LET us   == t * TickUnit
        secs == us \div 1000000
        frac == us % 1000000
    IN  DateHour \o Pad((secs \div 60) % 60, 2) \o <<58>> \o Pad(secs % 60, 2)
          \o (IF frac = 0 THEN <<>> ELSE <<46>> \o Pad(frac, 6))

RECURSIVE LexLess(_, _)
\* a < b as Python compares two str
LexLess(a, b) ==
    IF Len(b) = 0 THEN FALSE
    ELSE IF Len(a) = 0 THEN TRUE
    ELSE IF a[1] # b[1] THEN a[1] < b[1]
    ELSE LexLess(Tail(a), Tail(b))

LexLeq(a, b) == a = b \/ LexLess(a, b)

(* --------------------------- request handling -------------------------- *)
\* the requests clients send: GET and OPTIONS for every target, the other
\* methods for one
Requests ==
    [command : {"GET", "OPTIONS"}, target : Targets]
      \cup [command : Methods \ {"GET", "OPTIONS"}, target : {Text("/abc?x=1")}]

RECURSIVE LStripSlash(_)
\* str.lstrip('/')
LStripSlash(s) == IF Len(s) > 0 /\ s[1] = 47 THEN LStripSlash(Tail(s)) ELSE s

RECURSIVE UpToQuery(_)
UpToQuery(s) ==
    IF Len(s) = 0 \/ s[1] = 63 THEN <<>> ELSE <<s[1]>> \o UpToQuery(Tail(s))

\* variant: the query string is cut off the path
ParsePath_NoQuery(target) == UpToQuery(Latin1Decode(target))

\* parse_request(): self.path of a request line; the line is decoded as
\* iso-8859-1 and a leading run of slashes is reduced to one
ParsePath(target) ==
    LET p == Latin1Decode(target)
    IN  IF Len(p) >= 2 /\ p[1] = 47 /\ p[2] = 47
        THEN <<47>> \o LStripSlash(p)
        ELSE p

NoMethod == ""

\* the do_* methods TestHandler defines
HandlerMethods == {"do_OPTIONS", "do_GET"}

\* variant: a command without a method of its own is served by do_GET
Dispatch_Fallback(command) ==
    LET mname == "do_" \o command
    IN  IF mname \in HandlerMethods THEN mname ELSE "do_GET"

\* handle_one_request(): the method called for a command, NoMethod if the
\* handler has no attribute of that name
Dispatch(command) ==
    LET mname == "do_" \o command
    IN  IF mname \in HandlerMethods THEN mname ELSE NoMethod

\* header values, as str
ServerValue == Text("BaseHTTP Python")
AnyOrigin == Text("*")
AllowedMethods == Text("GET, POST, PUT, DELETE, OPTIONS")
AllowedHeaders == Text("Content-Type")
TextHtml == Text("text/html")
ErrorType == Text("text/html;charset=utf-8")
CloseValue == Text("close")

\* send_response(code): status line, then the Server and Date headers (the
\* date is the clock to the second, written here as a count of seconds)
StdHeaders(t) ==
    << <<"Server", ServerValue>>,
       <<"Date", Str((t * TickUnit) \div 1000000)>> >>

\* log_message(): "<isoformat> - <line>"
LogLine(t, kind, command, code) ==
    [time |-> IsoFormat(t), kind |-> kind, command |-> command, code |-> code]

\* variant: the preflight answer names no allowed methods
do_OPTIONS_NoMethods(t) ==
    [ handler |-> "do_OPTIONS",
      status  |-> 204,
      headers |-> StdHeaders(t) \o
                  << <<"Access-Control-Allow-Origin", AnyOrigin>>,
                     <<"Access-Control-Allow-Headers", AllowedHeaders>> >>,
      body    |-> <<>>,
      log     |-> << LogLine(t, "request", "OPTIONS", 204) >> ]

\* lines 18-23
do_OPTIONS(t) ==
    [ handler |-> "do_OPTIONS",
      status  |-> 204,
      headers |-> StdHeaders(t) \o
                  << <<"Access-Control-Allow-Origin", AnyOrigin>>,
                     <<"Access-Control-Allow-Methods", AllowedMethods>>,
                     <<"Access-Control-Allow-Headers", AllowedHeaders>> >>,
      body    |-> <<>>,
      log     |-> << LogLine(t, "request", "OPTIONS", 204) >> ]

\* the request methods as str
MethodText == [m \in Methods |-> Text(m)]

\* variant: the list item shows the default port, not the configured one
Html_DefaultPort(port, path, command, stamp) ==
    Html1 \o Str(port) \o Html2 \o Str(DefaultPort) \o Html3 \o path \o Html4
      \o MethodText[command] \o Html5 \o stamp \o Html6 \o Str(port) \o Html7
      \o Str(port) \o Html8 \o Str(port) \o Html9 \o Str(port) \o Html10

\* lines 31-96: the f-string
Html(port, path, command, stamp) ==
    Html1 \o Str(port) \o Html2 \o Str(port) \o Html3 \o path \o Html4
      \o MethodText[command] \o Html5 \o stamp \o Html6 \o Str(port) \o Html7
      \o Str(port) \o Html8 \o Str(port) \o Html9 \o Str(port) \o Html10

\* the timestamp the page shows when the clock reads t (line 70)
PageTime(t) == IsoFormat(t)

\* lines 25-98
do_GET(port, path, command, t) ==
    [ handler |-> "do_GET",
      status  |-> 200,
      headers |-> StdHeaders(t) \o
                  << <<"Content-Type", TextHtml>>,
                     <<"Access-Control-Allow-Origin", AnyOrigin>> >>,
      body    |-> Encode(Html(port, path, command, PageTime(t))),
      log     |-> << LogLine(t, "request", command, 200) >> ]

\* the error page, abridged to the lines that name the code and the method
ErrorHead == Text("Error code: 501 Message: Unsupported method ('")
ErrorTail == Text("')")

\* send_error(501): the library's answer to a command without a do_ method;
\* the explanatory page is not sent in answer to HEAD
send_error(command, t) ==
    [ handler |-> NoMethod,
      status  |-> 501,
      headers |-> StdHeaders(t) \o
                  << <<"Connection", CloseValue>>,
                     <<"Content-Type", ErrorType>> >>,
      body    |-> IF command = "HEAD" THEN <<>>
                  ELSE Encode(ErrorHead \o MethodText[command] \o ErrorTail),
      log     |-> << LogLine(t, "error", command, 501),
                     LogLine(t, "request", command, 501) >> ]

\* handle_one_request(): parse, look the method up, call it
Respond(port, req, t) ==
    LET m == Dispatch(req.command)
    IN  IF m = NoMethod THEN send_error(req.command, t)
        ELSE IF m = "do_GET"
             THEN do_GET(port, ParsePath(req.target), req.command, t)
             ELSE do_OPTIONS(t)

Range(s) == { s[i] : i \in 1..Len(s) }

\* a client opens a connection; the kernel queues it on the listening socket
Connect ==
    /\ sock = "listening"
    /\ pc # "exit"
    /\ connected < MaxRequests
    /\ connected - accepted < MaxBacklog
    /\ connected' = connected + 1
    /\ UNCHANGED << procVars, pc, exitCode, stderr, sock, loopVars, accepted,
                    active, answered, response, accessLog, refused, prevGet,
                    lastGet, now, interrupts >>

\* variant: requests are handed to threads and the loop accepts at once
LoopCanAccept_Threaded == Listening

\* where the serve_forever loop takes the next connection: HTTPServer
\* handles a request in the loop's own thread, so only from select()
LoopCanAccept == pc = "select"

\* _handle_request_noblock(): get_request() accepts the oldest connection
Accept ==
    /\ LoopCanAccept
    /\ Listening
    /\ accepted < connected
    /\ accepted' = accepted + 1
    /\ active' = active \cup {accepted + 1}
    /\ pc' = "process"
    /\ UNCHANGED << procVars, exitCode, stderr, sock, loopVars, connected,
                    answered, response, accessLog, refused, prevGet, lastGet,
                    now, interrupts >>

\* process_request() -> finish_request(): the handler reads the request
\* line, answers it and logs it
HandleOneRequest ==
    /\ pc = "process"
    /\ \E c \in active \ Range(answered) :
       \E req \in Requests :
       \E r \in {Respond(Port, req, now)} :
             /\ response' = Some([ conn    |-> c,
                                   request |-> req,
                                   handler |-> r.handler,
                                   status  |-> r.status,
                                   headers |-> r.headers,
                                   body    |-> r.body ])
             /\ accessLog' = r.log
             /\ answered' = Append(answered, c)
             /\ refused' = (refused \/ r.status = 501)
             /\ IF r.handler = "do_GET"
                THEN /\ prevGet' = lastGet
                     /\ lastGet' = Some([clock |-> now,
                                          stamp |-> PageTime(now)])
                ELSE UNCHANGED << prevGet, lastGet >>
    /\ pc' = "close"
    /\ UNCHANGED << procVars, exitCode, stderr, sock, loopVars, connected,
                    accepted, active, now, interrupts >>

\* shutdown_request(): the connection is closed, the loop selects again
CloseRequest ==
    /\ pc = "close"
    /\ \E c \in active \cap Range(answered) :
         active' = active \ {c}
    /\ pc' = "select"
    /\ UNCHANGED << procVars, exitCode, stderr, sock, loopVars, connected,
                    accepted, answered, response, accessLog, refused,
                    prevGet, lastGet, now, interrupts >>

(* ------------------------------ shutdown ------------------------------- *)
\* variant: the loop ends without setting the event
LeaveServeForever_NoSet ==
    /\ shutdownRequest' = FALSE
    /\ UNCHANGED isShutDown

\* serve_forever()'s finally clause
LeaveServeForever ==
    /\ shutdownRequest' = FALSE
    /\ isShutDown' = TRUE

\* SIGINT while serve_forever runs: KeyboardInterrupt unwinds the handler
\* (closing its connection) and the loop, and line 114 catches it
InterruptServing ==
    /\ Listening
    /\ interrupts' = interrupts + 1
    /\ active' = {}
    /\ LeaveServeForever
    /\ pc' = "except"
    /\ UNCHANGED << procVars, exitCode, stderr, sock, connected, accepted,
                    answered, response, accessLog, refused, prevGet, lastGet,
                    now >>

\* SIGINT outside the try block: nothing catches KeyboardInterrupt
InterruptOutside ==
    /\ pc \in {"line12", "line101", "banner", "line113",
               "except", "shutdown", "wait"}
    /\ interrupts' = interrupts + 1
    /\ Die("KeyboardInterrupt", 130)
    /\ UNCHANGED << procVars, loopVars, connVars, now >>

\* print('\n\n... Server stopped')
StoppedLines == << <<>>, <<>>, <<9989>> \o Text(" Server stopped") >>

\* line 115
PrintStopped ==
    /\ pc = "except"
    /\ stdout' = stdout \o StoppedLines
    /\ pc' = "shutdown"
    /\ UNCHANGED << argv, PORT, exitCode, stderr, sock, address,
                    bindAttempts, bindResult, loopVars, connVars, now,
                    interrupts >>

\* line 116: shutdown() raises the request flag ...
ShutdownCall ==
    /\ pc = "shutdown"
    /\ shutdownRequest' = TRUE
    /\ pc' = "wait"
    /\ UNCHANGED << procVars, exitCode, stderr, sock, isShutDown, connVars,
                    now, interrupts >>

\* ... and waits for the event; the program then runs off its end
ShutdownReturn ==
    /\ pc = "wait"
    /\ isShutDown
    /\ pc' = "exit"
    /\ exitCode' = Some(0)
    /\ sock' = "closed"
    /\ UNCHANGED << procVars, stderr, loopVars, connVars, now, interrupts >>

(* ---------------------------- environment ------------------------------ *)
\* the wall clock advances (it is read only while requests are served)
Tick ==
    /\ ~Stopped
    /\ now < MaxTick
    /\ now' = now + 1
    /\ UNCHANGED << procVars, pc, exitCode, stderr, sock, loopVars, connVars,
                    interrupts >>

\* the wall clock is set back (clock adjustment, end of daylight saving
\* time: datetime.now() is local time)
SetBack ==
    /\ ~Stopped
    /\ now > 0
    /\ now' = now - 1
    /\ UNCHANGED << procVars, pc, exitCode, stderr, sock, loopVars, connVars,
                    interrupts >>

Next ==
    \/ ParsePort
    \/ Construct
    \/ PrintBanner
    \/ ServeForever
    \/ Connect
    \/ Accept
    \/ HandleOneRequest
    \/ CloseRequest
    \/ InterruptServing
    \/ InterruptOutside
    \/ PrintStopped
    \/ ShutdownCall
    \/ ShutdownReturn
    \/ Tick
    \/ SetBack

Spec == Init /\ [][Next]_vars

\* the process is scheduled: the except clause, once entered, runs on
FairSpec ==
    Spec /\ WF_vars(PrintStopped) /\ WF_vars(ShutdownCall)
         /\ WF_vars(ShutdownReturn)

(* ------------------------------ properties ----------------------------- *)
\* response r carries the header name with the value given as a string
HasHeader(r, name, value) == <<name, Text(value)>> \in Range(r.headers)

Answered(command) == response # None /\ Response.request.command = command

IsAscii(s) == \A i \in 1..Len(s) : s[i] < 128
DoubleSlash(s) == Len(s) >= 2 /\ s[1] = 47 /\ s[2] = 47

PortItemHead == Text("Port: <code>")
UrlItemHead == Text("Request URL: <code>")
TimeItemHead == Text("Time: <code>")
ItemTail == Text("</code></li>")
PortLabel == Text("Port: ")

\* the ports some command line of ArgvChoices configures
PortsTried ==
    { PortFromArgs(a).value : a \in { b \in ArgvChoices : PortFromArgs(b).ok } }

\* C1: every response to an OPTIONS request, whatever the target and whatever
\* was served before, has status 204, the three Access-Control headers with
\* their fixed values, and an empty body; it is written while the server is
\* in its serving loop.
C1_OptionsPreflight ==
    Answered("OPTIONS") =>
        /\ Response.status = 204
        /\ Response.handler = "do_OPTIONS"
        /\ HasHeader(Response, "Access-Control-Allow-Origin", "*")
        /\ HasHeader(Response, "Access-Control-Allow-Methods",
                     "GET, POST, PUT, DELETE, OPTIONS")
        /\ HasHeader(Response, "Access-Control-Allow-Headers", "Content-Type")
        /\ Response.body = <<>>
        /\ bindResult = "ok"

\* C1 witness: an OPTIONS request for a target with a query string, answered
\* as the second request of the run
C1_Witness ==
    /\ Answered("OPTIONS")
    /\ Response.request.target = Text("/abc?x=1")
    /\ Response.conn = 2
    /\ Response.status = 204

\* C2 as stated: every GET response has status 200, Content-Type text/html,
\* Access-Control-Allow-Origin: *, and a body holding the run of characters
\* "Port: P" for the configured port P.
C2_Original ==
    Answered("GET") =>
        /\ Response.status = 200
        /\ HasHeader(Response, "Content-Type", "text/html")
        /\ HasHeader(Response, "Access-Control-Allow-Origin", "*")
        /\ Contains(Response.body, PortLabel \o Str(Port))

\* C2 amended: every GET response has status 200, Content-Type text/html,
\* Access-Control-Allow-Origin: *, and a body holding the list item
\* "Port: <code>P</code>" for the configured port P in decimal, and for no
\* other port.
C2_GetPage ==
    Answered("GET") =>
        /\ Response.status = 200
        /\ HasHeader(Response, "Content-Type", "text/html")
        /\ HasHeader(Response, "Access-Control-Allow-Origin", "*")
        /\ \A q \in PortsTried :
             Contains(Response.body, PortItemHead \o Str(q) \o ItemTail)
               <=> (q = Port)

\* C2 witness: a GET answered by a server started on a port given on the
\* command line, after an earlier request
C2_Witness ==
    /\ Answered("GET")
    /\ Len(argv) > 0
    /\ PORT = Some(8080)
    /\ Response.conn = 2

\* C3 as stated: the body of every GET response holds the request target
\* byte for byte as it was received.
C3_Original ==
    Answered("GET") => Contains(Response.body, Response.request.target)

\* C3 amended: when the request target is made of ASCII bytes only and does
\* not begin with two slashes, the body of the GET response holds it byte for
\* byte, as the list item "Request URL: <code>S</code>".
C3_PathEcho ==
    (/\ Answered("GET")
     /\ IsAscii(Response.request.target)
     /\ ~DoubleSlash(Response.request.target))
      => Contains(Response.body,
                  UrlItemHead \o Response.request.target \o ItemTail)

\* C3 witness: a GET for a target with a query string has been answered
C3_Witness ==
    /\ Answered("GET")
    /\ Response.request.target = Text("/abc?x=1")
    /\ Response.status = 200

\* the argument is present and is not an integer literal: it has no digit, or
\* a character that is neither digit, sign, underscore nor white space
NonNumeric(s) ==
    \/ \A i \in 1..Len(s) : ~IsDigit(s[i])
    \/ \E i \in 1..Len(s) :
         ~(IsDigit(s[i]) \/ IsSpace(s[i]) \/ s[i] \in {43, 45, 95})
NonNumericArg == Len(argv) > 0 /\ NonNumeric(Text(argv[1]))

\* the argument is present and does not name a port 0 .. 65535
InvalidArg ==
    /\ Len(argv) > 0
    /\ LET r == IntParse(Text(argv[1]))
       IN  ~r.ok \/ r.value < 0 \/ r.value > 65535

\* C4 as stated: once the arguments are read (and the process was not
\* interrupted), the configured port is 5173 whenever the port argument is
\* absent or invalid.
C4_Original ==
    (pc # "line12" /\ interrupts = 0 /\ (Len(argv) = 0 \/ InvalidArg))
      => PORT = Some(5173)

\* C4 amended: the configured port is 5173 whenever the port argument is
\* absent, and the server then listens on 0.0.0.0:5173; an argument that is an
\* integer literal is configured as given, in range or not; any other
\* argument configures no port at all.
C4_DefaultPort ==
    pc # "line12" =>
        /\ Len(argv) = 0 =>
             /\ stderr # "KeyboardInterrupt" => PORT = Some(5173)
             /\ Listening => address = <<"0.0.0.0", 5173>>
        /\ (Len(argv) > 0 /\ PORT # None) =>
             /\ IntParse(Text(argv[1])).ok
             /\ Port = IntParse(Text(argv[1])).value
        /\ (Len(argv) > 0 /\ ~IntParse(Text(argv[1])).ok) => PORT = None

\* C4 witness: started without arguments and serving
C4_Witness ==
    /\ Len(argv) = 0
    /\ Listening
    /\ PORT = Some(5173)
    /\ response # None

\* C5: with a non-numeric port argument the process ends at once with a
\* nonzero exit status; it makes no bind call, never owns a bound socket,
\* never serves and never answers a request.
C5_NonNumericFatal ==
    NonNumericArg =>
        /\ ~Listening
        /\ bindAttempts = 0
        /\ sock = "unbound"
        /\ address = None
        /\ accepted = 0
        /\ response = None
        /\ pc \in {"line12", "exit"}
        /\ pc = "exit" => (exitCode # None /\ exitCode # Some(0))

\* C5 witness: the process has died of the parsing error
C5_Witness ==
    /\ NonNumericArg
    /\ pc = "exit"
    /\ stderr = "ValueError"
    /\ exitCode = Some(1)

Unsupported(command) == command \notin {"GET", "OPTIONS"}

\* C6: a request whose method is neither GET nor OPTIONS is answered 501 by
\* the library and by neither handler; answering it leaves the server in its
\* serving loop with its socket listening, and requests served after it get
\* their usual answers (200 from do_GET, 204 from do_OPTIONS).
C6_OtherMethods ==
    /\ [](response # None =>
            /\ Unsupported(Response.request.command) =>
                 /\ Response.handler = NoMethod
                 /\ Response.status = 501
            /\ Response.request.command = "GET" =>
                 /\ Response.handler = "do_GET"
                 /\ Response.status = 200
            /\ Response.request.command = "OPTIONS" =>
                 /\ Response.handler = "do_OPTIONS"
                 /\ Response.status = 204
            /\ Response.status = 501 => refused)
    /\ [][(response' # response /\ Unsupported(response'[1].request.command))
            => (Listening' /\ sock' = "listening" /\ exitCode' = None)]_vars

\* C6 witness: a GET answered 200 after a 501 was sent in the same run
C6_Witness ==
    /\ refused
    /\ Answered("GET")
    /\ Response.status = 200
    /\ Response.conn = 2

\* the shutdown confirmation is the last thing on stdout
StoppedPrinted ==
    /\ Len(stdout) >= Len(StoppedLines)
    /\ SubSeq(stdout, Len(stdout) - Len(StoppedLines) + 1, Len(stdout))
         = StoppedLines

C8_BindOnce ==
    /\ Listening =>
         /\ bindResult = "ok"
         /\ bindAttempts = 1
         /\ sock = "listening"
         /\ address = <<"0.0.0.0", Port>>
    /\ bindResult \notin {"untried", "ok"} =>
         /\ pc = "exit"
         /\ exitCode \notin {None, Some(0)}
         /\ bindAttempts = 1
         /\ sock # "listening"
         /\ address = None
         /\ connected = 0
         /\ response = None

\* C8 witness: the port was in use and the process has ended
C8_Witness ==
    /\ bindResult = "EADDRINUSE"
    /\ pc = "exit"
    /\ exitCode = Some(1)
    /\ bindAttempts = 1

\* C9 as stated: the timestamps of two GET responses served one after the
\* other differ, and the later is lexically greater than or equal to the
\* earlier.
C9_Original ==
    (prevGet # None /\ lastGet # None) =>
        /\ PrevGet.stamp # LastGet.stamp
        /\ LexLeq(PrevGet.stamp, LastGet.stamp)

\* C9 amended: each GET response embeds the ISO-8601 rendering of the wall
\* clock as read while it was served; of two GETs served one after the other
\* the later timestamp is lexically greater than, equal to or less than the
\* earlier exactly as the later clock reading is greater than, equal to or
\* less than the earlier reading.
C9_Timestamps ==
    /\ (Answered("GET") /\ lastGet # None) =>
         Contains(Response.body, TimeItemHead \o LastGet.stamp \o ItemTail)
    /\ (prevGet # None /\ lastGet # None) =>
         /\ LexLess(PrevGet.stamp, LastGet.stamp)
              <=> (PrevGet.clock < LastGet.clock)
         /\ (PrevGet.stamp = LastGet.stamp)
              <=> (PrevGet.clock = LastGet.clock)
         /\ LexLess(LastGet.stamp, PrevGet.stamp)
              <=> (LastGet.clock < PrevGet.clock)

\* C9 witness: two GETs served one after the other while the clock advanced
C9_Witness ==
    /\ prevGet # None
    /\ lastGet # None
    /\ PrevGet.clock < LastGet.clock
    /\ Answered("GET")

\* C10: at most one accepted connection is open at any time; the loop is
\* back at select() only when that connection has been answered and closed;
\* responses are written in the order the connections were accepted.
C10_OneAtATime ==
    /\ Cardinality(active) <= 1
    /\ pc = "select" => (active = {} /\ Len(answered) = accepted)
    /\ active # {} => active = {accepted}
    /\ answered = [i \in 1..Len(answered) |-> i]
    /\ Len(answered) <= accepted
    /\ accepted <= connected

\* C10 witness: a second connection waits in the listen queue while the
\* first, already answered, is still open
C10_Witness ==
    /\ connected = 2
    /\ accepted = 1
    /\ active = {1}
    /\ answered = <<1>>

====
